---------------------------- MODULE Spec2Model ----------------------------
(***************************************************************************)
(* A model of github_action_utils.py: the workflow-command line protocol   *)
(* written to standard output, the escaping functions, the scoped helpers  *)
(* (group, stop_commands) and the channel files named by environment       *)
(* variables.                                                              *)
(*                                                                         *)
(* A text is a sequence of one-character strings.  Two characters are      *)
(* written by name: CR is "\r" and LF is "\n".  The 17 characters of       *)
(* ACTION_ENV_DELIMITER are one symbol of a text.                          *)
(***************************************************************************)
EXTENDS Naturals, Sequences, FiniteSets

VARIABLES
    orig,       \* pure functions: the text the pipeline started from
    text,       \* pure functions: the current text
    applied,    \* pure functions: names of the functions applied so far
    stdout,     \* the payloads printed so far, each with the call that printed it
    ctx,        \* the with-statement in progress (group / stop_commands)
    ret,        \* return value of the last begin_stop_commands call
    environ,    \* the path variables set in os.environ
    fs,         \* the content of the file each path variable names
    envLog,     \* what has been appended to the GITHUB_ENV file, in order
    pathLog,    \* the paths add_system_path has written, in call order
    cache,      \* lru_cache of event_payload
    last,       \* the last file operation called and how it ended (NoCall
                \* once the files or os.environ were changed from outside)
    nops        \* number of calls so far that change a file or os.environ

vars == <<orig, text, applied, stdout, ctx, ret, environ, fs, envLog, pathLog, cache,
          last, nops>>

escVars == <<orig, text, applied>>
cmdVars == <<stdout, ctx, ret>>
fileVars == <<environ, fs, envLog, pathLog, cache, last, nops>>

-----------------------------------------------------------------------------
(* Bounds *)

MaxLen == 3         \* longest input text of the pure-function pipeline
MaxApplied == 2     \* longest chain of pure functions applied to one input
MaxOut == 2         \* most payloads written to standard output in one run
MaxOps == 3         \* most calls in one run that change a file or os.environ

-----------------------------------------------------------------------------
(* Characters and texts *)

CR == "CR"
LF == "LF"
None == <<"<None>">>    \* Python's None, where an argument is Optional

RECURSIVE TextsUpTo(_, _)
TextsUpTo(alphabet, n) ==
    IF n = 0 THEN {<<>>}
    ELSE LET shorter == TextsUpTo(alphabet, n - 1)
         IN  shorter \cup {Append(t, c) : t \in {u \in shorter : Len(u) = n - 1},
                                          c \in alphabet}

\* str.replace(old, new): left to right, non-overlapping occurrences of old.
RECURSIVE Replace(_, _, _)
Replace(s, old, new) ==
    IF Len(s) < Len(old) THEN s
    ELSE IF SubSeq(s, 1, Len(old)) = old
         THEN new \o Replace(SubSeq(s, Len(old) + 1, Len(s)), old, new)
         ELSE <<Head(s)>> \o Replace(Tail(s), old, new)

\* `x in s` for texts: x occurs in s as a substring.
Contains(s, x) ==
    \E i \in 1..(Len(s) - Len(x) + 1) : SubSeq(s, i, i + Len(x) - 1) = x

-----------------------------------------------------------------------------
(* Escaper *)

\* str(data); the data modelled are texts, None and ints (a Python int is
\* the tag "<int>" followed by its decimal digits, see Int).
_make_string(data) ==
    IF data = None THEN <<"N", "o", "n", "e">>
    ELSE IF data # <<>> /\ Head(data) = "<int>" THEN Tail(data)
    ELSE data

_escape_data_keeps_newline(data) ==
    Replace(Replace(_make_string(data), <<"%">>, <<"%", "2", "5">>),
            <<CR>>, <<"%", "0", "D">>)

_escape_data(data) ==
    Replace(Replace(Replace(_make_string(data),
                            <<"%">>, <<"%", "2", "5">>),
                    <<CR>>, <<"%", "0", "D">>),
            <<LF>>, <<"%", "0", "A">>)

_escape_property(data) ==
    Replace(Replace(_escape_data(data), <<":">>, <<"%", "3", "A">>),
            <<",">>, <<"%", "2", "C">>)

_clean_markdown_string(markdown_string) ==
    Replace(Replace(Replace(_make_string(markdown_string),
                            <<"%", "2", "5">>, <<"%">>),
                    <<"%", "0", "D">>, <<CR>>),
            <<"%", "0", "A">>, <<LF>>)

-----------------------------------------------------------------------------
(* Command Encoder *)

COMMAND_MARKER == <<":", ":">>

LowerCase == <<"a", "b", "c", "d", "e", "f", "g", "h", "i", "j", "k", "l", "m",
               "n", "o", "p", "q", "r", "s", "t", "u", "v", "w", "x", "y", "z">>
UpperCase == <<"A", "B", "C", "D", "E", "F", "G", "H", "I", "J", "K", "L", "M",
               "N", "O", "P", "Q", "R", "S", "T", "U", "V", "W", "X", "Y", "Z">>

IsCased(c) == \E i \in 1..Len(LowerCase) : LowerCase[i] = c \/ UpperCase[i] = c

\* str.upper() and str.lower() of one character
upper(c) ==
    IF \E i \in 1..Len(LowerCase) : LowerCase[i] = c
    THEN UpperCase[CHOOSE i \in 1..Len(LowerCase) : LowerCase[i] = c]
    ELSE c

lower(c) ==
    IF \E i \in 1..Len(UpperCase) : UpperCase[i] = c
    THEN LowerCase[CHOOSE i \in 1..Len(UpperCase) : UpperCase[i] = c]
    ELSE c

\* str.title(): a cased character is upper case after an uncased one (or at
\* the start) and lower case after a cased one.
title(s) ==
    [i \in 1..Len(s) |->
        IF i > 1 /\ IsCased(s[i - 1]) THEN lower(s[i]) ELSE upper(s[i])]

_to_camel_case_keeps_snake(t) == t

_to_camel_case(t) ==
    LET first == IF t = <<>> THEN <<>> ELSE <<lower(t[1])>>
        rest  == Replace(title(t), <<"_">>, <<>>)
    IN  first \o SubSeq(rest, 2, Len(rest))

\* kwargs is the sequence of [key, value] pairs in the order the call site
\* declares them.
RECURSIVE JoinWith(_, _)
JoinWith(parts, sep) ==
    IF parts = <<>> THEN <<>>
    ELSE IF Len(parts) = 1 THEN parts[1]
    ELSE parts[1] \o sep \o JoinWith(Tail(parts), sep)

_build_options_string(kwargs) ==
    LET present == SelectSeq(kwargs, LAMBDA kv : kv.value # None)
        pairs   == [i \in 1..Len(present) |->
                       _to_camel_case(present[i].key) \o <<"=">>
                           \o _escape_property(present[i].value)]
    IN  JoinWith(pairs, <<",">>)

_print_command_never_escapes(command, command_message, options_string, escape_message) ==
    COMMAND_MARKER \o command \o <<" ">> \o options_string
        \o COMMAND_MARKER \o _make_string(command_message)

\* The text handed to print() or to `echo`: both sinks write it followed by a
\* line break.
_print_command(command, command_message, options_string, escape_message) ==
    LET message == IF escape_message THEN _escape_data(command_message)
                   ELSE _make_string(command_message)
    IN  COMMAND_MARKER \o command \o <<" ">> \o options_string
            \o COMMAND_MARKER \o message

-----------------------------------------------------------------------------
(* Command Emitter: the calls and the arguments they are made with *)

c_debug == <<"d", "e", "b", "u", "g">>
c_notice == <<"n", "o", "t", "i", "c", "e">>
c_warning == <<"w", "a", "r", "n", "i", "n", "g">>
c_error == <<"e", "r", "r", "o", "r">>
c_group == <<"g", "r", "o", "u", "p">>
c_endgroup == <<"e", "n", "d", "g", "r", "o", "u", "p">>
c_add_mask == <<"a", "d", "d", "-", "m", "a", "s", "k">>
c_stop_commands == <<"s", "t", "o", "p", "-", "c", "o", "m", "m", "a", "n", "d", "s">>

\* A Python int, by its decimal digits.
Int(digits) == <<"<int>">> \o digits

LogKwargs(title_, file, col, end_column, line, end_line) ==
    << [key |-> <<"t", "i", "t", "l", "e">>, value |-> title_],
       [key |-> <<"f", "i", "l", "e">>, value |-> file],
       [key |-> <<"c", "o", "l">>, value |-> col],
       [key |-> <<"e", "n", "d", "_", "c", "o", "l", "u", "m", "n">>, value |-> end_column],
       [key |-> <<"l", "i", "n", "e">>, value |-> line],
       [key |-> <<"e", "n", "d", "_", "l", "i", "n", "e">>, value |-> end_line] >>

\* Messages, titles and values the caller passes.
Messages == { <<"a">>, <<"%", LF, CR>> }

\* Option sets the caller passes to notice / warning / error.
LogOptions ==
    { LogKwargs(None, None, None, None, None, None),
      LogKwargs(<<"T", ":", ",">>, None, None, None, None, Int(<<"2">>)),
      LogKwargs(None, <<"a", ".", "j", "s">>, Int(<<"5">>), Int(<<"7">>), Int(<<"1">>), None) }

\* Tokens the caller passes to begin_stop_commands / stop_commands.
CallerTokens == { None, <<>>, <<"t", "k">> }

\* Values str(uuid.uuid1()) may take.
UuidTokens == { <<"u", "1">>, <<"u", "2">> }

-----------------------------------------------------------------------------
(* Channel files: the block format and the State File Reader *)

ACTION_ENV_DELIMITER == <<"__ENV_DELIMITER__">>

_build_file_input(name, value) ==
    _escape_property(name) \o <<"<", "<">> \o ACTION_ENV_DELIMITER \o <<LF>>
        \o _escape_data(value) \o <<LF>>
        \o ACTION_ENV_DELIMITER \o <<LF>>

\* Iterating a file opened "rb": the lines, each with its line break; the
\* last one has none when the content does not end with LF.
RECURSIVE SplitLines(_)
SplitLines(content) ==
    IF content = <<>> THEN <<>>
    ELSE IF \E i \in 1..Len(content) : content[i] = LF
         THEN LET n == CHOOSE i \in 1..Len(content) :
                          /\ content[i] = LF
                          /\ \A j \in 1..(i - 1) : content[j] # LF
              IN  <<SubSeq(content, 1, n)>>
                      \o SplitLines(SubSeq(content, n + 1, Len(content)))
         ELSE <<content>>

Whitespace == {" ", "TAB", CR, LF}

\* str.strip()
RECURSIVE strip(_)
strip(t) ==
    IF t = <<>> THEN t
    ELSE IF Head(t) \in Whitespace THEN strip(Tail(t))
    ELSE IF t[Len(t)] \in Whitespace THEN strip(SubSeq(t, 1, Len(t) - 1))
    ELSE t

\* t.split(sep)[0]: t up to the first occurrence of sep, all of t without one.
RECURSIVE SplitFirst(_, _)
SplitFirst(t, sep) ==
    IF Len(t) < Len(sep) THEN t
    ELSE IF SubSeq(t, 1, Len(sep)) = sep THEN <<>>
    ELSE <<Head(t)>> \o SplitFirst(Tail(t), sep)

\* A Python dict is a function from its keys to their values.
EmptyDict == <<>>

\* d[key] = value
Store(d, key, value) ==
    [k \in DOMAIN d \cup {key} |-> IF k = key THEN value ELSE d[k]]

\* A local variable that has not been assigned yet.
Unbound == <<"<unbound>">>

OnStopIteration_stores_empty(d, name) == Store(d, name, <<>>)

\* next(file) raises StopIteration after a header line: `break`, and the
\* dict is returned as it is.
OnStopIteration(d, name) == d

\* The loop of get_workflow_environment_variables from line i on.
RECURSIVE ReadLines(_, _, _, _, _)
ReadLines(lines, i, d, name, decoded_value) ==
    IF i > Len(lines) THEN [outcome |-> "ok", value |-> d]
    ELSE IF Contains(lines[i], <<"<", "<">> \o ACTION_ENV_DELIMITER)
    THEN LET header_name == SplitFirst(strip(lines[i]), <<"<", "<">>)
         IN  IF i + 1 > Len(lines)
             THEN [outcome |-> "ok", value |-> OnStopIteration(d, header_name)]
             ELSE LET v == strip(lines[i + 1])
                  IN  ReadLines(lines, i + 2, Store(d, header_name, v), header_name, v)
    ELSE IF name = Unbound \/ decoded_value = Unbound
    THEN [outcome |-> "UnboundLocalError", value |-> None]
    ELSE ReadLines(lines, i + 1, Store(d, name, decoded_value), name, decoded_value)

\* get_workflow_environment_variables on a GITHUB_ENV file of this content.
ReadBlocks(content) ==
    ReadLines(SplitLines(content), 1, EmptyDict, Unbound, Unbound)

-----------------------------------------------------------------------------
(* Channel files: the operations *)

PathVars ==
    {"GITHUB_OUTPUT", "GITHUB_STATE", "GITHUB_ENV", "GITHUB_STEP_SUMMARY",
     "GITHUB_PATH", "GITHUB_EVENT_PATH"}

\* A path at which no file exists.
NoFile == <<"<no file>">>

\* The event file the orchestrator wrote before the job started.
EventJson == <<"{", "}">>

\* Arguments the caller passes.
Names == { <<"A">>, <<"B">> }
OutputNames == { <<"o", "u", "t">> }
StateNames == { <<"s", "t">> }
Values == { <<"x">>, <<"%">> }
Markdown == { <<"m">>, <<"%", "2", "5">> }
Paths == { <<"/", "a">>, <<"/", "b">> }

\* Lines another step of the job may have left in the GITHUB_ENV file: a
\* block cut off after its header line, a plain NAME=value line, a stray
\* delimiter line.
ForeignLines ==
    { <<"A", "<", "<">> \o ACTION_ENV_DELIMITER \o <<LF>>,
      <<"C", "<", "<">> \o ACTION_ENV_DELIMITER \o <<LF>>,
      <<"N", "=", "v", LF>>,
      ACTION_ENV_DELIMITER \o <<LF>> }

EscIdle ==
    /\ orig = <<>>
    /\ text = <<>>
    /\ applied = <<>>

NoContext ==
    [kind |-> "none", pc |-> "idle", outcome |-> "none", arg |-> None,
     stop_token |-> None, emitted |-> <<>>]

NoReturn == [token |-> None, line |-> <<>>]

CmdIdle ==
    /\ stdout = <<>>
    /\ ctx = NoContext
    /\ ret = NoReturn

NoCache == [full |-> FALSE, data |-> <<>>]

NoCall ==
    [op |-> "none", missing |-> FALSE, outcome |-> "none", changed |-> FALSE,
     value |-> None, written |-> <<>>]

FilesIdle ==
    /\ environ = {}
    /\ fs = [v \in PathVars |-> <<>>]
    /\ envLog = <<>>
    /\ pathLog = <<>>
    /\ cache = NoCache
    /\ last = NoCall
    /\ nops = 0

environ_lookup_never_fails(env, v) == "ok"

\* os.environ[v]
environ_lookup(env, v) == IF v \in env THEN "ok" ELSE "KeyError"

Appended_truncating(files, v, bytes) == [files EXCEPT ![v] = bytes]

\* What a file holds after bytes are written to it in append mode.
Appended(files, v, bytes) ==
    [files EXCEPT ![v] = (IF @ = NoFile THEN <<>> ELSE @) \o bytes]

\* The call `op` has ended: with which outcome, the files it leaves and the
\* bytes it handed to f.write in append mode.
EndedWriting(op, v, outcome, value, files, written) ==
    /\ fs' = files
    /\ last' = [op |-> op, missing |-> v \notin environ, outcome |-> outcome,
                changed |-> files # fs, value |-> value, written |-> written]
    /\ nops' = IF files # fs THEN nops + 1 ELSE nops
    /\ files # fs => nops < MaxOps

\* A call that appends nothing has ended.
Ended(op, v, outcome, value, files) ==
    EndedWriting(op, v, outcome, value, files, <<>>)

\* with open(os.environ[v], "a" or "ab") as f: f.write(bytes)
AppendCall(op, v, bytes) ==
    LET looked == environ_lookup(environ, v)
    IN  EndedWriting(op, v, looked, None,
                     IF looked = "ok" THEN Appended(fs, v, bytes) ELSE fs,
                     IF looked = "ok" THEN bytes ELSE <<>>)

set_output ==
    \E name \in OutputNames, value \in Values :
        /\ AppendCall("set_output", "GITHUB_OUTPUT", _build_file_input(name, value))
        /\ UNCHANGED <<environ, envLog, pathLog, cache, escVars, cmdVars>>

save_state ==
    \E name \in StateNames, value \in Values :
        /\ AppendCall("save_state", "GITHUB_STATE", _build_file_input(name, value))
        /\ UNCHANGED <<environ, envLog, pathLog, cache, escVars, cmdVars>>

set_env ==
    \E name \in Names, value \in Values :
        /\ AppendCall("set_env", "GITHUB_ENV", _build_file_input(name, value))
        /\ envLog' = IF fs' # fs
                     THEN Append(envLog, [kind |-> "set_env", name |-> name,
                                          value |-> value,
                                          bytes |-> _build_file_input(name, value)])
                     ELSE envLog
        /\ UNCHANGED <<environ, pathLog, cache, escVars, cmdVars>>

get_workflow_environment_variables ==
    LET r == IF "GITHUB_ENV" \notin environ
             THEN [outcome |-> "ok", value |-> EmptyDict]
             ELSE ReadBlocks(fs["GITHUB_ENV"])
    IN  /\ Ended("get_workflow_environment_variables", "GITHUB_ENV",
                 r.outcome, r.value, fs)
        /\ UNCHANGED <<environ, envLog, pathLog, cache, escVars, cmdVars>>

append_job_summary ==
    \E markdown_text \in Markdown :
        /\ AppendCall("append_job_summary", "GITHUB_STEP_SUMMARY",
                      _clean_markdown_string(markdown_text) \o <<LF>>)
        /\ UNCHANGED <<environ, envLog, pathLog, cache, escVars, cmdVars>>

overwrite_job_summary ==
    \E markdown_text \in Markdown :
        LET looked == environ_lookup(environ, "GITHUB_STEP_SUMMARY")
        IN  /\ Ended("overwrite_job_summary", "GITHUB_STEP_SUMMARY", looked, None,
                     IF looked = "ok"
                     THEN [fs EXCEPT !["GITHUB_STEP_SUMMARY"] =
                               _clean_markdown_string(markdown_text) \o <<LF>>]
                     ELSE fs)
            /\ UNCHANGED <<environ, envLog, pathLog, cache, escVars, cmdVars>>

\* KeyError and FileNotFoundError are caught and passed over.
remove_job_summary ==
    LET looked == environ_lookup(environ, "GITHUB_STEP_SUMMARY")
    IN  /\ Ended("remove_job_summary", "GITHUB_STEP_SUMMARY", "ok", None,
                 IF looked = "ok"
                 THEN [fs EXCEPT !["GITHUB_STEP_SUMMARY"] = NoFile]
                 ELSE fs)
        /\ UNCHANGED <<environ, envLog, pathLog, cache, escVars, cmdVars>>

add_system_path ==
    \E path \in Paths :
        /\ AppendCall("add_system_path", "GITHUB_PATH", path)
        /\ pathLog' = IF fs' # fs THEN Append(pathLog, path) ELSE pathLog
        /\ UNCHANGED <<environ, envLog, cache, escVars, cmdVars>>

\* json.load of the event file
json_load(content) == [json |-> content]

\* @lru_cache(maxsize=1): the body runs only when no result is cached, and a
\* call that raises caches nothing.
event_payload ==
    LET looked == environ_lookup(environ, "GITHUB_EVENT_PATH")
    IN  /\ IF cache.full
           THEN /\ Ended("event_payload", "GITHUB_EVENT_PATH", "ok", cache.data, fs)
                /\ UNCHANGED cache
           ELSE IF looked = "ok"
           THEN /\ Ended("event_payload", "GITHUB_EVENT_PATH", "ok",
                         json_load(fs["GITHUB_EVENT_PATH"]), fs)
                /\ cache' = [full |-> TRUE, data |-> json_load(fs["GITHUB_EVENT_PATH"])]
           ELSE /\ Ended("event_payload", "GITHUB_EVENT_PATH", looked, None, fs)
                /\ UNCHANGED cache
        /\ UNCHANGED <<environ, envLog, pathLog, escVars, cmdVars>>

\* Another step of the job appends a line to the GITHUB_ENV file.
other_step_appends ==
    \E line \in ForeignLines :
        /\ nops < MaxOps
        /\ nops' = nops + 1
        /\ fs' = Appended(fs, "GITHUB_ENV", line)
        /\ envLog' = Append(envLog, [kind |-> "foreign", name |-> <<>>,
                                     value |-> <<>>, bytes |-> line])
        /\ last' = NoCall
        /\ UNCHANGED <<environ, pathLog, cache, escVars, cmdVars>>

\* The host program removes a path variable from os.environ.
unsetenv ==
    \E v \in environ :
        /\ nops < MaxOps
        /\ nops' = nops + 1
        /\ environ' = environ \ {v}
        /\ last' = NoCall
        /\ UNCHANGED <<fs, envLog, pathLog, cache, escVars, cmdVars>>

\* A job on a runner: every path variable is set, the channel files exist
\* and are empty, the event file holds the payload.
Init ==
    /\ environ = PathVars
    /\ fs = [v \in PathVars |-> IF v = "GITHUB_EVENT_PATH" THEN EventJson ELSE <<>>]
    /\ envLog = <<>>
    /\ pathLog = <<>>
    /\ cache = NoCache
    /\ last = NoCall
    /\ nops = 0
    /\ EscIdle
    /\ CmdIdle

Next ==
    \/ set_output
    \/ save_state
    \/ set_env
    \/ get_workflow_environment_variables
    \/ append_job_summary
    \/ overwrite_job_summary
    \/ remove_job_summary
    \/ add_system_path
    \/ event_payload
    \/ other_step_appends
    \/ unsetenv

Spec == Init /\ [][Next]_vars

-----------------------------------------------------------------------------
(* Properties of the channel files *)

RECURSIVE BytesOf(_)
BytesOf(log) ==
    IF log = <<>> THEN <<>> ELSE Head(log).bytes \o BytesOf(Tail(log))

\* The GITHUB_ENV file has just been read, with GITHUB_ENV set.
EnvFileRead ==
    /\ last.op = "get_workflow_environment_variables"
    /\ ~last.missing

\* C4: after N >= 1 set_env calls on an empty GITHUB_ENV file,
\* get_workflow_environment_variables returns a mapping whose keys are the
\* distinct names written, each mapped to the value of the last set_env call
\* for it.
SetEnvRoundTrip ==
    (/\ EnvFileRead
     /\ Len(envLog) >= 1
     /\ \A i \in 1..Len(envLog) : envLog[i].kind = "set_env")
        => /\ last.outcome = "ok"
           /\ DOMAIN last.value = {envLog[i].name : i \in 1..Len(envLog)}
           /\ Cardinality(DOMAIN last.value)
                  = Cardinality({envLog[i].name : i \in 1..Len(envLog)})
           /\ \A i \in 1..Len(envLog) :
                  (\A j \in (i + 1)..Len(envLog) : envLog[j].name # envLog[i].name)
                      => last.value[envLog[i].name] = envLog[i].value

IsHeaderLine(line) == Contains(line, <<"<", "<">> \o ACTION_ENV_DELIMITER)

HeaderKey(line) == SplitFirst(strip(line), <<"<", "<">>)

\* The GITHUB_ENV file holds complete blocks written by set_env and then a
\* header line after which the file ends.
EndsWithDanglingHeader ==
    /\ Len(envLog) >= 1
    /\ envLog[Len(envLog)].kind = "foreign"
    /\ IsHeaderLine(envLog[Len(envLog)].bytes)
    /\ \A i \in 1..(Len(envLog) - 1) : envLog[i].kind = "set_env"

\* C5: reading a GITHUB_ENV file that ends with a dangling header does not
\* raise; the header adds no entry (its key is absent unless a complete block
\* before it wrote that key) and the mapping is the one of the complete
\* blocks before it, each of their keys present.
DanglingHeaderDropped ==
    (EnvFileRead /\ EndsWithDanglingHeader)
        => LET blocks == SubSeq(envLog, 1, Len(envLog) - 1)
               key == HeaderKey(envLog[Len(envLog)].bytes)
           IN  /\ last.outcome = "ok"
               /\ (\A i \in 1..Len(blocks) : _escape_property(blocks[i].name) # key)
                      => key \notin DOMAIN last.value
               /\ \A i \in 1..Len(blocks) :
                      _escape_property(blocks[i].name) \in DOMAIN last.value
               /\ last.value = ReadBlocks(BytesOf(blocks)).value

\* C5 witness: a complete block for A, then a dangling header for C, read.
DanglingHeaderDroppedWitness ==
    /\ EnvFileRead
    /\ EndsWithDanglingHeader
    /\ Len(envLog) = 2
    /\ HeaderKey(envLog[2].bytes) = <<"C">>
    /\ last.outcome = "ok"
    /\ DOMAIN last.value = {<<"A">>}

\* C10: every file operation called with its path variable unset fails with
\* the KeyError and leaves every file unchanged, except
\* get_workflow_environment_variables, which returns an empty mapping.
MissingVariableFails ==
    (last.missing /\ last.op # "none")
        => IF last.op = "get_workflow_environment_variables"
           THEN last.outcome = "ok" /\ last.value = EmptyDict
           ELSE last.outcome = "KeyError" /\ ~last.changed

\* C10 as amended: as C10, with two more exceptions: remove_job_summary
\* returns normally and does nothing, and event_payload returns the cached
\* payload when an earlier call has cached one.
MissingVariableFailsOrIsPassedOver ==
    (last.missing /\ last.op # "none")
        => /\ ~last.changed
           /\ last.op = "get_workflow_environment_variables"
                  => last.outcome = "ok" /\ last.value = EmptyDict
           /\ last.op = "remove_job_summary" => last.outcome = "ok"
           /\ last.op = "event_payload"
                  => IF cache.full
                     THEN last.outcome = "ok" /\ last.value = cache.data
                     ELSE last.outcome = "KeyError"
           /\ last.op \in {"set_output", "save_state", "set_env", "append_job_summary",
                           "overwrite_job_summary", "add_system_path"}
                  => last.outcome = "KeyError"

\* C10 witness: set_env has written a block, GITHUB_ENV was then unset, and
\* a second set_env has failed.
MissingVariableWitness ==
    /\ last.op = "set_env"
    /\ last.missing
    /\ last.outcome = "KeyError"
    /\ Len(envLog) = 1
    /\ fs["GITHUB_ENV"] = envLog[1].bytes

\* The calls that open their channel file in append mode.
AppendOps ==
    {"set_output", "save_state", "set_env", "append_job_summary", "add_system_path"}

ChannelOf(op) ==
    CASE op = "set_output" -> "GITHUB_OUTPUT"
      [] op = "save_state" -> "GITHUB_STATE"
      [] op = "set_env" -> "GITHUB_ENV"
      [] op = "append_job_summary" -> "GITHUB_STEP_SUMMARY"
      [] op = "add_system_path" -> "GITHUB_PATH"

\* The bytes these calls may write, by the arguments they are made with.
BytesOfCall(op) ==
    CASE op = "set_output" ->
             {_build_file_input(n, v) : n \in OutputNames, v \in Values}
      [] op = "save_state" ->
             {_build_file_input(n, v) : n \in StateNames, v \in Values}
      [] op = "set_env" ->
             {_build_file_input(n, v) : n \in Names, v \in Values}
      [] op = "append_job_summary" ->
             {_clean_markdown_string(m) \o <<LF>> : m \in Markdown}
      [] op = "add_system_path" -> Paths

\* C11: every successful set_output, save_state, set_env, append_job_summary
\* and add_system_path call leaves in its channel file the content the file
\* had before the call followed by the bytes of the call, and leaves every
\* other file as it was; so a sequence of calls leaves the content before it
\* followed by the bytes of each call in call order, a repeated call
\* included.
AppendOnly ==
    [][(last'.op \in AppendOps /\ last'.outcome = "ok")
          => /\ last'.written \in BytesOfCall(last'.op)
             /\ fs' = [fs EXCEPT ![ChannelOf(last'.op)] =
                          (IF @ = NoFile THEN <<>> ELSE @) \o last'.written]]_vars

\* C11 witness: the same set_output call made twice has left two identical
\* copies of its block, one after the other.
AppendOnlyWitness ==
    /\ last.op = "set_output"
    /\ last.outcome = "ok"
    /\ last.written \in BytesOfCall("set_output")
    /\ fs["GITHUB_OUTPUT"] = last.written \o last.written

\* The entries of a file of one entry per line: its lines without their
\* line breaks.
Entries(content) ==
    LET lines == SplitLines(content)
    IN  [i \in 1..Len(lines) |->
            IF lines[i][Len(lines[i])] = LF
            THEN SubSeq(lines[i], 1, Len(lines[i]) - 1)
            ELSE lines[i]]

\* C14: after N add_system_path calls with paths p1..pN on an empty
\* GITHUB_PATH file, the file holds the N entries p1..pN, one per line, in
\* call order.
PathEntriesSeparate ==
    Entries(fs["GITHUB_PATH"]) = pathLog

\* The lines of a GITHUB_ENV file that are a block header or the value line
\* right after one, from line i on.
RECURSIVE HeaderAndValueLines(_, _)
HeaderAndValueLines(lines, i) ==
    IF i > Len(lines) THEN <<>>
    ELSE IF IsHeaderLine(lines[i])
    THEN SubSeq(lines, i, IF i + 1 <= Len(lines) THEN i + 1 ELSE i)
             \o HeaderAndValueLines(lines, i + 2)
    ELSE HeaderAndValueLines(lines, i + 1)

\* C13: for every content of the GITHUB_ENV file, the read returns without
\* raising, and the lines that are neither a block header nor the value line
\* after one add no entry and change none: the mapping is the one of the
\* header and value lines alone.
EntriesOnlyFromHeaders ==
    EnvFileRead
        => /\ last.outcome = "ok"
           /\ last.value =
                  ReadLines(HeaderAndValueLines(SplitLines(fs["GITHUB_ENV"]), 1),
                            1, EmptyDict, Unbound, Unbound).value

-----------------------------------------------------------------------------
(* Standard output and the scoped helpers *)

\* One payload written to standard output, with the call that wrote it.
Printed(fn, command, message, options, line) ==
    [fn |-> fn, command |-> command, message |-> message, options |-> options,
     line |-> line]

Emit(entry) ==
    /\ Len(stdout) < MaxOut
    /\ stdout' = Append(stdout, entry)

debug ==
    \E message \in Messages :
        /\ Emit(Printed("debug", c_debug, message, <<>>,
                        _print_command(c_debug, message, <<>>, FALSE)))
        /\ UNCHANGED <<ctx, ret, escVars, fileVars>>

LogCommand(fn, command) ==
    \E message \in Messages, kwargs \in LogOptions :
        LET options_string == _build_options_string(kwargs)
        IN  /\ Emit(Printed(fn, command, message, options_string,
                            _print_command(command, message, options_string, FALSE)))
            /\ UNCHANGED <<ctx, ret, escVars, fileVars>>

notice == LogCommand("notice", c_notice)

warning == LogCommand("warning", c_warning)

error == LogCommand("error", c_error)

start_group_line(title_) == _print_command(c_group, title_, <<>>, FALSE)

end_group_line == COMMAND_MARKER \o c_endgroup \o COMMAND_MARKER

start_group ==
    \E title_ \in Messages :
        /\ Emit(Printed("start_group", c_group, title_, <<>>, start_group_line(title_)))
        /\ UNCHANGED <<ctx, ret, escVars, fileVars>>

end_group ==
    /\ Emit(Printed("end_group", c_endgroup, <<>>, <<>>, end_group_line))
    /\ UNCHANGED <<ctx, ret, escVars, fileVars>>

add_mask ==
    \E value \in Messages \cup {None} :
        /\ Emit(Printed("add_mask", c_add_mask, value, <<>>,
                        _print_command(c_add_mask, value, <<>>, TRUE)))
        /\ UNCHANGED <<ctx, ret, escVars, fileVars>>

begin_stop_commands_returns_argument(token, uuid) ==
    LET t == IF token = None \/ token = <<>> THEN uuid ELSE token
    IN  [token |-> token, line |-> _print_command(c_stop_commands, t, <<>>, FALSE)]

\* The line begin_stop_commands prints and the token it returns; uuid is the
\* value str(uuid.uuid1()) takes when it is called.
begin_stop_commands_result(token, uuid) ==
    LET t == IF token = None \/ token = <<>> THEN uuid ELSE token
    IN  [token |-> t, line |-> _print_command(c_stop_commands, t, <<>>, FALSE)]

end_stop_commands_line(token) ==
    COMMAND_MARKER \o _make_string(token) \o COMMAND_MARKER

begin_stop_commands ==
    \E token \in CallerTokens, uuid \in UuidTokens :
        LET r == begin_stop_commands_result(token, uuid)
        IN  /\ Emit(Printed("begin_stop_commands", c_stop_commands, r.token, <<>>, r.line))
            /\ ret' = r
            /\ UNCHANGED <<ctx, escVars, fileVars>>

end_stop_commands ==
    \E token \in CallerTokens \ {None} :
        /\ Emit(Printed("end_stop_commands", token, <<>>, <<>>,
                        end_stop_commands_line(token)))
        /\ UNCHANGED <<ctx, ret, escVars, fileVars>>

\* with group(title): up to the yield.
group_enter ==
    \E title_ \in Messages :
        /\ ctx.pc # "body"
        /\ Emit(Printed("start_group", c_group, title_, <<>>, start_group_line(title_)))
        /\ ctx' = [kind |-> "group", pc |-> "body", outcome |-> "none",
                   arg |-> title_, stop_token |-> None,
                   emitted |-> <<start_group_line(title_)>>]
        /\ UNCHANGED <<ret, escVars, fileVars>>

\* The with-body returns: the generator is resumed after the yield.
group_body_returns ==
    /\ ctx.kind = "group" /\ ctx.pc = "body"
    /\ Emit(Printed("end_group", c_endgroup, <<>>, <<>>, end_group_line))
    /\ ctx' = [ctx EXCEPT !.pc = "exited", !.outcome = "returned",
                          !.emitted = Append(@, end_group_line)]
    /\ UNCHANGED <<ret, escVars, fileVars>>

\* The with-body raises: the exception is thrown into the generator at the
\* yield, which has no try/finally around it, and leaves the generator.
group_body_raises ==
    /\ ctx.kind = "group" /\ ctx.pc = "body"
    /\ ctx' = [ctx EXCEPT !.pc = "exited", !.outcome = "raised"]
    /\ UNCHANGED <<stdout, ret, escVars, fileVars>>

\* with stop_commands(token): up to the yield.
stop_commands_enter ==
    \E token \in CallerTokens, uuid \in UuidTokens :
        LET r == begin_stop_commands_result(token, uuid)
        IN  /\ ctx.pc # "body"
            /\ Emit(Printed("begin_stop_commands", c_stop_commands, r.token, <<>>, r.line))
            /\ ret' = r
            /\ ctx' = [kind |-> "stop_commands", pc |-> "body", outcome |-> "none",
                       arg |-> token, stop_token |-> r.token,
                       emitted |-> <<r.line>>]
            /\ UNCHANGED <<escVars, fileVars>>

stop_commands_body_returns ==
    /\ ctx.kind = "stop_commands" /\ ctx.pc = "body"
    /\ Emit(Printed("end_stop_commands", ctx.stop_token, <<>>, <<>>,
                    end_stop_commands_line(ctx.stop_token)))
    /\ ctx' = [ctx EXCEPT !.pc = "exited", !.outcome = "returned",
                          !.emitted = Append(@, end_stop_commands_line(ctx.stop_token))]
    /\ UNCHANGED <<ret, escVars, fileVars>>

stop_commands_body_raises ==
    /\ ctx.kind = "stop_commands" /\ ctx.pc = "body"
    /\ ctx' = [ctx EXCEPT !.pc = "exited", !.outcome = "raised"]
    /\ UNCHANGED <<stdout, ret, escVars, fileVars>>

InitCmd ==
    /\ CmdIdle
    /\ EscIdle
    /\ FilesIdle

NextCmd ==
    \/ debug
    \/ notice
    \/ warning
    \/ error
    \/ start_group
    \/ end_group
    \/ add_mask
    \/ begin_stop_commands
    \/ end_stop_commands
    \/ group_enter
    \/ group_body_returns
    \/ group_body_raises
    \/ stop_commands_enter
    \/ stop_commands_body_returns
    \/ stop_commands_body_raises

SpecCmd == InitCmd /\ [][NextCmd]_vars

-----------------------------------------------------------------------------
(* Properties of the lines written to standard output *)

\* Every '%' of t starts one of the triples in `triples`.
PercentsStart(t, triples) ==
    \A i \in 1..Len(t) :
        t[i] = "%" => /\ i + 2 <= Len(t)
                      /\ SubSeq(t, i, i + 2) \in triples

HasNone(t, chars) == \A i \in 1..Len(t) : t[i] \notin chars

DataTriples == {<<"%", "2", "5">>, <<"%", "0", "D">>, <<"%", "0", "A">>}
PropertyTriples == DataTriples \cup {<<"%", "3", "A">>, <<"%", "2", "C">>}

\* The calls that print a command through _print_command.
CommandFns ==
    {"debug", "notice", "warning", "error", "start_group", "add_mask",
     "begin_stop_commands"}

\* The message part of a command line: what follows its second '::'.
MessagePart(line) ==
    LET IsMarker(i) == line[i] = ":" /\ line[i + 1] = ":"
        second == CHOOSE i \in 3..(Len(line) - 1) :
                      /\ IsMarker(i)
                      /\ \A j \in 3..(i - 1) : ~IsMarker(j)
    IN  SubSeq(line, second + 2, Len(line))

\* The token of an end-stop line ::T::
EndToken(line) == SubSeq(line, 3, Len(line) - 2)

\* C1: when a `with group(title)` statement is over, whether its body
\* returned or raised, the helper has printed exactly the begin line carrying
\* the title and then exactly one ::endgroup:: line.
GroupEmitsBeginThenEnd ==
    (ctx.kind = "group" /\ ctx.pc = "exited")
        => ctx.emitted = <<start_group_line(ctx.arg), end_group_line>>

\* C2: when a `with stop_commands(token)` statement is over, whether its body
\* returned or raised, the closing line ::T:: has been printed after the
\* begin line.
StopCommandsAlwaysClosed ==
    (ctx.kind = "stop_commands" /\ ctx.pc = "exited")
        => /\ Len(ctx.emitted) = 2
           /\ ctx.emitted[2] = end_stop_commands_line(ctx.stop_token)

\* C3: begin_stop_commands returns the token its line carries; the begin line
\* of a stop_commands context carries the caller's token when one is given;
\* and the end line of the context carries the token of its begin line.
StopTokensAgree ==
    /\ ret # NoReturn => MessagePart(ret.line) = ret.token
    /\ (ctx.kind = "stop_commands" /\ ctx.arg # None /\ ctx.arg # <<>>)
          => MessagePart(ctx.emitted[1]) = ctx.arg
    /\ (ctx.kind = "stop_commands" /\ Len(ctx.emitted) = 2)
          => EndToken(ctx.emitted[2]) = MessagePart(ctx.emitted[1])

\* C3 witness: a stop_commands context entered without a caller's token has
\* printed both of its lines, carrying a generated token.
StopTokensAgreeWitness ==
    /\ ctx.kind = "stop_commands"
    /\ ctx.arg = None
    /\ ctx.outcome = "returned"
    /\ Len(ctx.emitted) = 2
    /\ MessagePart(ctx.emitted[1]) \in UuidTokens
    /\ ret.token \in UuidTokens

EscapedMessage(m) ==
    /\ HasNone(m, {CR, LF})
    /\ PercentsStart(m, DataTriples)

\* C8 as stated: the message part of every command line printed by debug,
\* notice, warning, error, start_group, add_mask and begin_stop_commands holds
\* no raw '%', CR or LF.
CommandMessagesEscaped ==
    \A i \in 1..Len(stdout) :
        stdout[i].fn \in CommandFns => EscapedMessage(MessagePart(stdout[i].line))

\* C8 as amended: the message part of every add_mask line holds no raw '%',
\* CR or LF; the message part of every line printed by debug, notice, warning,
\* error, start_group and begin_stop_commands is the caller's text unchanged.
OnlyAddMaskEscapesMessage ==
    \A i \in 1..Len(stdout) :
        /\ stdout[i].fn = "add_mask" =>
              EscapedMessage(MessagePart(stdout[i].line))
        /\ stdout[i].fn \in CommandFns \ {"add_mask"} =>
              MessagePart(stdout[i].line) = _make_string(stdout[i].message)

\* C8 witness: add_mask has printed a value holding '%', LF and CR, and debug
\* has printed the same text.
OnlyAddMaskEscapesMessageWitness ==
    /\ Len(stdout) = 2
    /\ stdout[1].fn = "add_mask"
    /\ stdout[1].message = <<"%", LF, CR>>
    /\ MessagePart(stdout[1].line) = <<"%", "2", "5", "%", "0", "A", "%", "0", "D">>
    /\ stdout[2].fn = "debug"
    /\ stdout[2].message = <<"%", LF, CR>>

\* C9: a command line printed with no options is '::' + command + '::' +
\* message, with nothing between the command name and the second '::'.
NoOptionsLineFormat ==
    \A i \in 1..Len(stdout) :
        (stdout[i].fn \in CommandFns /\ stdout[i].options = <<>>)
            => stdout[i].line = COMMAND_MARKER \o stdout[i].command
                                   \o COMMAND_MARKER \o MessagePart(stdout[i].line)

-----------------------------------------------------------------------------
(* _build_options_string applied to the option mappings of notice, and the
   line notice prints with them *)

\* The keyword arguments a caller passes to notice, in declared order: each
\* option absent (None) or present; file may also be the empty text.
OptionInputs ==
    { LogKwargs(t, f, c, ec, l, el) :
        t \in {None, <<"T", ":", ",">>},
        f \in {None, <<>>, <<"a", "p", "p", ".", "j", "s">>},
        c \in {None, Int(<<"5">>)},
        ec \in {None, Int(<<"7">>)},
        l \in {None, Int(<<"1">>)},
        el \in {None, Int(<<"2">>)} }

MissingSemicolon == <<"M", "i", "s", "s", "i", "n", "g", " ", "s", "e", "m", "i", "c", "o", "l", "o", "n">>

InitOptions ==
    /\ orig \in OptionInputs
    /\ text = <<>>
    /\ applied = <<>>
    /\ CmdIdle
    /\ FilesIdle

BuildOptionsString ==
    /\ applied = <<>>
    /\ text' = _build_options_string(orig)
    /\ applied' = <<"_build_options_string">>
    /\ UNCHANGED <<orig, cmdVars, fileVars>>

\* notice(message="Missing semicolon", **orig)
notice_with_options ==
    LET options_string == _build_options_string(orig)
    IN  /\ Emit(Printed("notice", c_notice, MissingSemicolon, options_string,
                        _print_command(c_notice, MissingSemicolon, options_string, FALSE)))
        /\ UNCHANGED <<ctx, ret, escVars, fileVars>>

NextOptions ==
    \/ BuildOptionsString
    \/ notice_with_options

SpecOptions == InitOptions /\ [][NextOptions]_vars

\* t.split(sep) for a one-character sep, the empty text giving no part.
RECURSIVE SplitOn(_, _)
SplitOn(t, sep) ==
    IF t = <<>> THEN <<>>
    ELSE IF \E i \in 1..Len(t) : t[i] = sep
         THEN LET n == CHOOSE i \in 1..Len(t) :
                          t[i] = sep /\ \A j \in 1..(i - 1) : t[j] # sep
              IN  <<SubSeq(t, 1, n - 1)>>
                      \o (IF n = Len(t) THEN <<<<>>>>
                          ELSE SplitOn(SubSeq(t, n + 1, Len(t)), sep))
         ELSE <<t>>

\* The camelCase form of each option name of notice / warning / error.
CamelCaseName(key) ==
    CASE key = <<"t", "i", "t", "l", "e">> -> <<"t", "i", "t", "l", "e">>
      [] key = <<"f", "i", "l", "e">> -> <<"f", "i", "l", "e">>
      [] key = <<"c", "o", "l">> -> <<"c", "o", "l">>
      [] key = <<"e", "n", "d", "_", "c", "o", "l", "u", "m", "n">> -> <<"e", "n", "d", "C", "o", "l", "u", "m", "n">>
      [] key = <<"l", "i", "n", "e">> -> <<"l", "i", "n", "e">>
      [] key = <<"e", "n", "d", "_", "l", "i", "n", "e">> -> <<"e", "n", "d", "L", "i", "n", "e">>

NoticeExample ==
    LogKwargs(None, <<"a", "p", "p", ".", "j", "s">>, Int(<<"5">>), Int(<<"7">>),
              Int(<<"1">>), None)

\* C12: the options string holds, joined by ',', exactly one name=value pair
\* for each option whose value is not None and none for the others, in the
\* declared order, each name in camelCase and each value escaped by
\* _escape_property; and notice(message='Missing semicolon', file='app.js',
\* col=5, end_column=7, line=1) prints
\* '::notice file=app.js,col=5,endColumn=7,line=1::Missing semicolon'.
OptionsStringCorrect ==
    /\ applied = <<"_build_options_string">> =>
          LET present == SelectSeq(orig, LAMBDA kv : kv.value # None)
              pairs == SplitOn(text, ",")
          IN  /\ Len(pairs) = Len(present)
              /\ \A k \in 1..Len(present) :
                     pairs[k] = CamelCaseName(present[k].key) \o <<"=">>
                                    \o _escape_property(present[k].value)
    /\ orig = NoticeExample =>
          \A i \in 1..Len(stdout) :
              stdout[i].line = 
                  << ":", ":", "n", "o", "t", "i", "c", "e", " ", "f", "i", "l",
                     "e", "=", "a", "p", "p", ".", "j", "s", ",", "c", "o", "l",
                     "=", "5", ",", "e", "n", "d", "C", "o", "l", "u", "m", "n",
                     "=", "7", ",", "l", "i", "n", "e", "=", "1", ":", ":", "M",
                     "i", "s", "s", "i", "n", "g", " ", "s", "e", "m", "i", "c",
                     "o", "l", "o", "n" >>

\* C12 witness: the example's options have been built and notice has printed
\* its line.
OptionsStringWitness ==
    /\ orig = NoticeExample
    /\ applied = <<"_build_options_string">>
    /\ text = <<"f", "i", "l", "e", "=", "a", "p", "p", ".", "j", "s", ",", "c", "o", "l", "=", "5", ",", "e", "n", "d", "C", "o", "l", "u", "m", "n", "=", "7", ",", "l", "i", "n", "e", "=", "1">>
    /\ Len(stdout) = 1

-----------------------------------------------------------------------------
(* The pure functions applied to bounded inputs *)

EscAlphabet == {"%", CR, LF, "0", "2", "5", "A", "D", ":", ","}

InitEscape ==
    /\ orig \in TextsUpTo(EscAlphabet, MaxLen)
    /\ text = orig
    /\ applied = <<>>
    /\ CmdIdle
    /\ FilesIdle

ApplyEscapeData ==
    /\ Len(applied) < MaxApplied
    /\ text' = _escape_data(text)
    /\ applied' = Append(applied, "_escape_data")
    /\ UNCHANGED <<orig, cmdVars, fileVars>>

ApplyEscapeProperty ==
    /\ Len(applied) < MaxApplied
    /\ text' = _escape_property(text)
    /\ applied' = Append(applied, "_escape_property")
    /\ UNCHANGED <<orig, cmdVars, fileVars>>

ApplyCleanMarkdownString ==
    /\ Len(applied) < MaxApplied
    /\ text' = _clean_markdown_string(text)
    /\ applied' = Append(applied, "_clean_markdown_string")
    /\ UNCHANGED <<orig, cmdVars, fileVars>>

NextEscape ==
    \/ ApplyEscapeData
    \/ ApplyEscapeProperty
    \/ ApplyCleanMarkdownString

SpecEscape == InitEscape /\ [][NextEscape]_vars

-----------------------------------------------------------------------------
(* Escaper properties *)

\* C6: for every text s over '%', CR, LF, '0', '2', '5', 'A', 'D' (no ':' or
\* ','), _clean_markdown_string(_escape_data(s)) = s.
EscapeRoundTrip ==
    (/\ applied = <<"_escape_data", "_clean_markdown_string">>
     /\ \A i \in 1..Len(orig) : orig[i] \notin {":", ","})
        => text = orig

\* C7: the output of _escape_data holds no raw CR and no raw LF and every '%'
\* in it starts %25, %0D or %0A; the output of _escape_property holds in
\* addition no raw ':' and no raw ',' (its '%' start %25, %0D, %0A, %3A, %2C).
EscapedAlphabet ==
    /\ applied = <<"_escape_data">> =>
          /\ HasNone(text, {CR, LF})
          /\ PercentsStart(text, DataTriples)
    /\ applied = <<"_escape_property">> =>
          /\ HasNone(text, {CR, LF, ":", ","})
          /\ PercentsStart(text, PropertyTriples)

\* C7 witness: an input holding every escaped character has been escaped.
EscapedAlphabetWitness ==
    /\ applied = <<"_escape_property">>
    /\ orig = <<"%", LF, ":">>
    /\ text = <<"%", "2", "5", "%", "0", "A", "%", "3", "A">>

=============================================================================
